---- MODULE Spec2Model ----
(***************************************************************************)
(* Idempotency / distributed-lock protocol of ms-reservations              *)
(* (src/ms-reservations/src/redis/redis.service.ts) and its                *)
(* create_reservation message handler (reservations.controller.ts).        *)
(*                                                                         *)
(* The Redis store is the only shared state.  Every `await this.redis.X`   *)
(* of RedisService is one atomic step of the calling worker; between two   *)
(* awaits any other worker, or a TTL expiry, may act.                      *)
(***************************************************************************)
EXTENDS Integers, FiniteSets, Sequences, TLC

\* ------------------------------------------------------------------ bounds
MaxTokens == 2
MaxFailures == 1
MaxDirectSets == 1
MaxMessages == 3
MaxDeliveries == 2

\* ------------------------------------------------------- program constants
LockTtlMs == 5000
TtlSeconds == 86400

\* Two workers (request flows of ms-reservations instances), two idempotency
\* keys, two reservation ids.  Except under SpecExpiry a run lies within one
\* completion TTL (24 h): only the lock TTL (5 s) lapses.
Procs == {1, 2}
Keys == {"order-42", "order-43"}
ReservationIds == {"res-100", "res-200"}

\* The create_reservation messages on reservations_queue, and the errors
\* reservationsService.create rejects with.
Messages == 1 .. MaxMessages
CreateErrors == {"conflict", "failure"}

\* `${Date.now()}-${Math.random().toString(36).substring(7)}`: the n-th value
\* generated in a run; distinct calls yield distinct values.
NewLockValue(n) == ToString(n) \o "-rnd"

\* Redis' nil reply (null in ioredis), and a missing optional field.
Nil == "(nil)"
Undefined == "undefined"

IdempotencyKeyOf(k) == "reservation_key:" \o k

\* One lock key for all idempotency keys.
LockKeyShared(k) == "lock:"

\* A lock key that collides with the key of the completion record.
LockKeyAliased(k) == "reservation_key:" \o k

LockKeyOf(k) == "lock:" \o k
StoreKeys == {IdempotencyKeyOf(k) : k \in Keys} \cup {LockKeyOf(k) : k \in Keys}

\* A missing Redis key (TTL replies -2), a key without expiry replies -1.
Absent == [value |-> Nil, ttl |-> -2]

\* ------------------------------------------------------------ Redis commands
RedisGet(s, k) == s[k].value

RedisSetex(s, k, seconds, v) == [s EXCEPT ![k] = [value |-> v, ttl |-> seconds * 1000]]

\* SET k v PX ms (no NX): what checkAndLock would do without the NX flag.
RedisSetPx(s, k, v, ms) ==
  [store |-> [s EXCEPT ![k] = [value |-> v, ttl |-> ms]], reply |-> "OK"]

\* SET k v NX without PX: a lock that never expires.
RedisSetNxNoExpiry(s, k, v, ms) ==
  IF s[k] = Absent
    THEN [store |-> [s EXCEPT ![k] = [value |-> v, ttl |-> -1]], reply |-> "OK"]
    ELSE [store |-> s, reply |-> Nil]

\* SET k v PX ms NX
RedisSetPxNx(s, k, v, ms) ==
  IF s[k] = Absent
    THEN [store |-> [s EXCEPT ![k] = [value |-> v, ttl |-> ms]], reply |-> "OK"]
    ELSE [store |-> s, reply |-> Nil]

\* A DEL that removes nothing.
RedisDelNothing(s, k) == s

\* A DEL that empties the store.
RedisFlush(s, k) == [x \in DOMAIN s |-> Absent]

RedisDel(s, k) == [s EXCEPT ![k] = Absent]

\* A release that deletes nothing.
ReleaseNothing(s, k, v) == s

\* The Lua script of releaseLock: compare-and-delete.
ReleaseLockScript(s, k, v) == IF RedisGet(s, k) = v THEN RedisDel(s, k) ELSE s

\* A presence test that never finds a value.
NeverTruthy(v) == FALSE

\* JavaScript truthiness of a string | null.
Truthy(v) == v # Nil /\ v # ""

\* ------------------------------------------------------------------ results
NoRet ==
  [op |-> "none", status |-> "pending", isDuplicate |-> FALSE,
   existingReservationId |-> Undefined, lockAcquired |-> FALSE]

IdempotencyResult(dup, id, acq) ==
  [op |-> "checkAndLock", status |-> "ok", isDuplicate |-> dup,
   existingReservationId |-> id, lockAcquired |-> acq]

Returned(op) ==
  [op |-> op, status |-> "ok", isDuplicate |-> FALSE,
   existingReservationId |-> Undefined, lockAcquired |-> FALSE]

Thrown(op) ==
  [op |-> op, status |-> "error", isDuplicate |-> FALSE,
   existingReservationId |-> Undefined, lockAcquired |-> FALSE]

\* A duplicate result that also reports the lock as acquired.
DuplicateWithLock(id) == IdempotencyResult(TRUE, id, TRUE)

Duplicate(id) == IdempotencyResult(TRUE, id, FALSE)
LockAcquired == IdempotencyResult(FALSE, Undefined, TRUE)
Contended == IdempotencyResult(FALSE, Undefined, FALSE)

\* -------------------------------------------------------------------- state
VARIABLES
  redis,          \* the store: StoreKeys -> [value, ttl]
  pc,             \* where each worker stands
  key,            \* the `key` argument of the worker's current/last call
  lockValue,      \* checkAndLock's local lockValue; kept while the caller holds the lock
  doubleCheck,    \* checkAndLock's local doubleCheck, of the worker's current/last call
  reservationId,  \* confirmReservation's argument while the call runs
  ret,            \* what the worker's last call returned or threw
  tokens,         \* lock values generated so far
  failures,       \* store failures so far
  storeFailed,    \* history: a store operation failed in the worker's current call
  confirmCount,   \* history: completion writes by confirmReservation per key
  confirmed,      \* history: ids of the confirmReservation calls completed per key
  directSets,     \* setIdempotencyKey calls so far
  unconfirmed,    \* history, per key: the lock value found in place by the last
                  \*   confirmReservation whose completion write failed
  quiet,          \* history, per key: -1 after a rollback of the key completed and no
                  \*   worker touched it since; q once worker q's checkAndLock was the
                  \*   first to follow and no other worker touched the key; else 0
  rolledValue,    \* history, per key: the lock value of that rollback (while quiet # 0)
  handler,        \* createReservation: where the handler of each message stands
  acks,           \* channel.ack(originalMsg) calls per message
  outcome,        \* what the handler of each message returned or threw
  deliveries      \* deliveries of each message by the transport

vars ==
  <<redis, pc, key, lockValue, doubleCheck, reservationId, ret, tokens, failures,
    storeFailed, confirmCount, confirmed, directSets, unconfirmed, quiet, rolledValue,
    handler, acks, outcome, deliveries>>

\* The state of the message handler (ReservationsController).
controller == <<handler, acks, outcome, deliveries>>

\* The state of RedisService and its store.
idempotency ==
  <<redis, pc, key, lockValue, doubleCheck, reservationId, ret, tokens, failures,
    storeFailed, confirmCount, confirmed, directSets, unconfirmed, quiet, rolledValue>>

Init ==
  /\ redis = [k \in StoreKeys |-> Absent]
  /\ pc = [p \in Procs |-> "idle"]
  /\ key = [p \in Procs |-> Nil]
  /\ lockValue = [p \in Procs |-> Nil]
  /\ doubleCheck = [p \in Procs |-> Nil]
  /\ reservationId = [p \in Procs |-> Nil]
  /\ ret = [p \in Procs |-> NoRet]
  /\ tokens = 0
  /\ failures = 0
  /\ storeFailed = [p \in Procs |-> FALSE]
  /\ confirmCount = [k \in Keys |-> 0]
  /\ confirmed = [k \in Keys |-> {}]
  /\ directSets = 0
  /\ unconfirmed = [k \in Keys |-> Nil]
  /\ quiet = [k \in Keys |-> 0]
  /\ rolledValue = [k \in Keys |-> Nil]
  /\ handler = [m \in Messages |-> "queued"]
  /\ acks = [m \in Messages |-> 0]
  /\ outcome = [m \in Messages |-> Nil]
  /\ deliveries = [m \in Messages |-> 0]

\* History of a store round-trip of worker p on key k: the key stays quiet
\* only for the worker whose checkAndLock was the first to follow the rollback.
Touch(p, k) ==
  /\ quiet' = [quiet EXCEPT ![k] = IF @ = p THEN p ELSE 0]
  /\ rolledValue' = [rolledValue EXCEPT ![k] = IF quiet[k] = p THEN @ ELSE Nil]

\* History of the first store round-trip of a checkAndLock call.
TouchFirst(p, k) ==
  /\ quiet' = [quiet EXCEPT ![k] = IF @ = -1 THEN p ELSE 0]
  /\ rolledValue' = [rolledValue EXCEPT ![k] = IF quiet[k] = -1 THEN @ ELSE Nil]

\* The same await with the rejection swallowed: the call resolves normally.
RejectSwallowed(p, op) ==
  /\ pc' = [pc EXCEPT ![p] = "idle"]
  /\ ret' = [ret EXCEPT ![p] = IF op = "checkAndLock" THEN LockAcquired ELSE Returned(op)]
  /\ lockValue' = [lockValue EXCEPT ![p] = Nil]

\* A rejected `await`: no try/catch in RedisService, the call rejects.
Reject(p, op) ==
  /\ pc' = [pc EXCEPT ![p] = "idle"]
  /\ ret' = [ret EXCEPT ![p] = Thrown(op)]
  /\ lockValue' = [lockValue EXCEPT ![p] = Nil]

\* The store operation of worker p fails (StoreUnavailable): no effect on the store.
StoreFails(p) ==
  /\ failures < MaxFailures
  /\ failures' = failures + 1
  /\ storeFailed' = [storeFailed EXCEPT ![p] = TRUE]
  /\ redis' = redis


\* ------------------------------------------------------------- checkAndLock
\* PASO 1: `await this.redis.get(idempotencyKey)` and the fast-path return.
\* The call starts here: a worker that is not inside a call picks a key.
CheckAndLockGet(p, k) ==
  /\ pc[p] = "idle"
  /\ key' = [key EXCEPT ![p] = k]
  /\ TouchFirst(p, k)
  /\ \/ /\ LET existingValue == RedisGet(redis, IdempotencyKeyOf(k)) IN
             IF Truthy(existingValue)
               THEN /\ pc' = pc
                    /\ ret' = [ret EXCEPT ![p] = Duplicate(existingValue)]
               ELSE /\ pc' = [pc EXCEPT ![p] = "setnx"]
                    /\ ret' = [ret EXCEPT ![p] = NoRet]
        /\ storeFailed' = [storeFailed EXCEPT ![p] = FALSE]
        /\ UNCHANGED <<redis, failures, lockValue>>
     \/ /\ StoreFails(p)
        /\ Reject(p, "checkAndLock")
  /\ doubleCheck' = [doubleCheck EXCEPT ![p] = Nil]
  /\ UNCHANGED <<reservationId, tokens, confirmCount, confirmed, directSets, unconfirmed>>
  /\ UNCHANGED controller

\* PASO 2: generate lockValue, `await this.redis.set(lockKey, lockValue, "PX",
\* lockTtlMs, "NX")`, branch on the reply.
CheckAndLockSetNx(p) ==
  /\ pc[p] = "setnx"
  /\ tokens < MaxTokens
  /\ tokens' = tokens + 1
  /\ Touch(p, key[p])
  /\ \/ /\ LET r == RedisSetPxNx(redis, LockKeyOf(key[p]), NewLockValue(tokens + 1), LockTtlMs) IN
             /\ redis' = r.store
             /\ lockValue' = [lockValue EXCEPT ![p] = NewLockValue(tokens + 1)]
             /\ pc' = [pc EXCEPT ![p] = IF r.reply = Nil THEN "sleep" ELSE "doubleCheck"]
        /\ UNCHANGED <<ret, failures, storeFailed>>
     \/ /\ StoreFails(p)
        /\ Reject(p, "checkAndLock")
  /\ UNCHANGED <<key, doubleCheck, reservationId, confirmCount, confirmed, directSets, unconfirmed>>
  /\ UNCHANGED controller

\* `await this.sleep(100)` on the contended path.
CheckAndLockSleep(p) ==
  /\ pc[p] = "sleep"
  /\ pc' = [pc EXCEPT ![p] = "checkAgain"]
  /\ UNCHANGED <<redis, key, lockValue, doubleCheck, reservationId, ret, tokens,
                 failures, storeFailed, confirmCount, confirmed, directSets, unconfirmed, quiet, rolledValue>>
  /\ UNCHANGED controller

\* A contended path that retries the acquisition when the re-read finds nothing.
CheckAndLockRetry(p) ==
  /\ pc[p] = "checkAgain"
  /\ Touch(p, key[p])
  /\ LET checkAgain == RedisGet(redis, IdempotencyKeyOf(key[p])) IN
       IF Truthy(checkAgain)
         THEN /\ ret' = [ret EXCEPT ![p] = Duplicate(checkAgain)]
              /\ pc' = [pc EXCEPT ![p] = "idle"]
         ELSE /\ ret' = ret
              /\ pc' = [pc EXCEPT ![p] = "setnx"]
  /\ lockValue' = [lockValue EXCEPT ![p] = Nil]
  /\ UNCHANGED <<redis, failures, storeFailed>>
  /\ UNCHANGED <<key, doubleCheck, reservationId, tokens, confirmCount, confirmed, directSets, unconfirmed>>
  /\ UNCHANGED controller

\* Contended path: the single re-read and the return built from it.
CheckAndLockCheckAgain(p) ==
  /\ pc[p] = "checkAgain"
  /\ Touch(p, key[p])
  /\ \/ /\ LET checkAgain == RedisGet(redis, IdempotencyKeyOf(key[p])) IN
             ret' = [ret EXCEPT ![p] =
                       IdempotencyResult(Truthy(checkAgain),
                                         IF Truthy(checkAgain) THEN checkAgain ELSE Undefined,
                                         FALSE)]
        /\ pc' = [pc EXCEPT ![p] = "idle"]
        /\ lockValue' = [lockValue EXCEPT ![p] = Nil]
        /\ UNCHANGED <<redis, failures, storeFailed>>
     \/ /\ StoreFails(p)
        /\ Reject(p, "checkAndLock")
  /\ UNCHANGED <<key, doubleCheck, reservationId, tokens, confirmCount, confirmed, directSets, unconfirmed>>
  /\ UNCHANGED controller

\* checkAndLock without PASO 3: the lock holder proceeds without re-reading.
CheckAndLockNoDoubleCheck(p) ==
  /\ pc[p] = "doubleCheck"
  /\ Touch(p, key[p])
  /\ pc' = [pc EXCEPT ![p] = "holding"]
  /\ ret' = [ret EXCEPT ![p] = LockAcquired]
  /\ UNCHANGED <<redis, failures, storeFailed, doubleCheck, lockValue>>
  /\ UNCHANGED <<key, reservationId, tokens, confirmCount, confirmed, directSets, unconfirmed>>
  /\ UNCHANGED controller

\* PASO 3: `await this.redis.get(idempotencyKey)` with the lock held; without a
\* completion record the call returns LockAcquired and the caller holds the lock.
CheckAndLockDoubleCheck(p) ==
  /\ pc[p] = "doubleCheck"
  /\ Touch(p, key[p])
  /\ \/ /\ LET v == RedisGet(redis, IdempotencyKeyOf(key[p])) IN
             IF Truthy(v)
               THEN /\ doubleCheck' = [doubleCheck EXCEPT ![p] = v]
                    /\ pc' = [pc EXCEPT ![p] = "release"]
                    /\ ret' = ret
               ELSE /\ doubleCheck' = doubleCheck
                    /\ pc' = [pc EXCEPT ![p] = "holding"]
                    /\ ret' = [ret EXCEPT ![p] = LockAcquired]
        /\ UNCHANGED <<redis, failures, storeFailed, lockValue>>
     \/ /\ StoreFails(p)
        /\ Reject(p, "checkAndLock")
        /\ doubleCheck' = doubleCheck
  /\ UNCHANGED <<key, reservationId, tokens, confirmCount, confirmed, directSets, unconfirmed>>
  /\ UNCHANGED controller

\* `await this.releaseLock(lockKey, lockValue)` and the duplicate return.
CheckAndLockRelease(p) ==
  /\ pc[p] = "release"
  /\ Touch(p, key[p])
  /\ \/ /\ redis' = ReleaseLockScript(redis, LockKeyOf(key[p]), lockValue[p])
        /\ pc' = [pc EXCEPT ![p] = "idle"]
        /\ ret' = [ret EXCEPT ![p] = Duplicate(doubleCheck[p])]
        /\ lockValue' = [lockValue EXCEPT ![p] = Nil]
        /\ UNCHANGED <<failures, storeFailed, doubleCheck>>
     \/ /\ StoreFails(p)
        /\ Reject(p, "checkAndLock")
        /\ doubleCheck' = [doubleCheck EXCEPT ![p] = Nil]
  /\ UNCHANGED <<key, reservationId, tokens, confirmCount, confirmed, directSets, unconfirmed>>
  /\ UNCHANGED controller

\* ------------------------------------------------------ confirmReservation
\* A confirmReservation that deletes the lock record first and has not yet
\* written the completion record.
ConfirmDelFirst(p, r) ==
  /\ pc[p] = "holding"
  /\ Touch(p, key[p])
  /\ redis' = RedisDel(redis, LockKeyOf(key[p]))
  /\ pc' = [pc EXCEPT ![p] = "confirmDel"]
  /\ ret' = [ret EXCEPT ![p] = NoRet]
  /\ reservationId' = [reservationId EXCEPT ![p] = r]
  /\ storeFailed' = [storeFailed EXCEPT ![p] = FALSE]
  /\ UNCHANGED <<failures, lockValue, unconfirmed, confirmCount>>
  /\ UNCHANGED <<key, doubleCheck, tokens, confirmed, directSets>>
  /\ UNCHANGED controller

\* `await this.redis.setex(idempotencyKey, ttlSeconds, reservationId)`.  Called
\* by a worker to which checkAndLock returned LockAcquired.
ConfirmSetex(p, r) ==
  /\ pc[p] = "holding"
  /\ Touch(p, key[p])
  /\ \/ /\ redis' = RedisSetex(redis, IdempotencyKeyOf(key[p]), TtlSeconds, r)
        /\ pc' = [pc EXCEPT ![p] = "confirmDel"]
        /\ ret' = [ret EXCEPT ![p] = NoRet]
        /\ reservationId' = [reservationId EXCEPT ![p] = r]
        /\ confirmCount' = [confirmCount EXCEPT ![key[p]] = @ + 1]
        /\ storeFailed' = [storeFailed EXCEPT ![p] = FALSE]
        /\ UNCHANGED <<failures, lockValue, unconfirmed>>
     \/ /\ StoreFails(p)
        /\ Reject(p, "confirmReservation")
        /\ unconfirmed' = [unconfirmed EXCEPT ![key[p]] = RedisGet(redis, LockKeyOf(key[p]))]
        /\ UNCHANGED <<reservationId, confirmCount>>
  /\ UNCHANGED <<key, doubleCheck, tokens, confirmed, directSets>>
  /\ UNCHANGED controller

\* `await this.redis.del(lockKey)` and the return of confirmReservation.
ConfirmDel(p) ==
  /\ pc[p] = "confirmDel"
  /\ Touch(p, key[p])
  /\ reservationId' = [reservationId EXCEPT ![p] = Nil]
  /\ \/ /\ redis' = RedisDel(redis, LockKeyOf(key[p]))
        /\ pc' = [pc EXCEPT ![p] = "idle"]
        /\ ret' = [ret EXCEPT ![p] = Returned("confirmReservation")]
        /\ confirmed' = [confirmed EXCEPT ![key[p]] = @ \cup {reservationId[p]}]
        /\ lockValue' = [lockValue EXCEPT ![p] = Nil]
        /\ UNCHANGED <<failures, storeFailed>>
     \/ /\ StoreFails(p)
        /\ Reject(p, "confirmReservation")
        /\ UNCHANGED confirmed
  /\ UNCHANGED <<key, doubleCheck, tokens, confirmCount, directSets, unconfirmed>>
  /\ UNCHANGED controller

\* ------------------------------------------------------------ rollbackLock
\* `await this.redis.del(lockKey)`.  Called by a worker to which checkAndLock
\* returned LockAcquired.
RollbackDel(p) ==
  /\ pc[p] = "holding"
  /\ \/ /\ redis' = RedisDel(redis, LockKeyOf(key[p]))
        /\ pc' = [pc EXCEPT ![p] = "idle"]
        /\ ret' = [ret EXCEPT ![p] = Returned("rollbackLock")]
        /\ storeFailed' = [storeFailed EXCEPT ![p] = FALSE]
        /\ quiet' = [quiet EXCEPT ![key[p]] = -1]
        /\ rolledValue' = [rolledValue EXCEPT ![key[p]] = lockValue[p]]
        /\ lockValue' = [lockValue EXCEPT ![p] = Nil]
        /\ UNCHANGED failures
     \/ /\ StoreFails(p)
        /\ Reject(p, "rollbackLock")
        /\ Touch(p, key[p])
  /\ UNCHANGED <<key, doubleCheck, reservationId, tokens, confirmCount, confirmed, directSets, unconfirmed>>
  /\ UNCHANGED controller

\* ------------------------------------------------------- setIdempotencyKey
\* `await this.redis.setex(...)` of the simple method, called by any client of
\* the service outside the check-lock-check flow.
SetIdempotencyKey(k, r) ==
  /\ directSets < MaxDirectSets
  /\ directSets' = directSets + 1
  /\ redis' = RedisSetex(redis, IdempotencyKeyOf(k), TtlSeconds, r)
  /\ quiet' = [quiet EXCEPT ![k] = 0]
  /\ rolledValue' = [rolledValue EXCEPT ![k] = Nil]
  /\ UNCHANGED <<pc, key, lockValue, doubleCheck, reservationId, ret, tokens, failures,
                 storeFailed, confirmCount, confirmed, unconfirmed>>
  /\ UNCHANGED controller

\* ------------------------------------------------------------- environment
\* Redis drops a key whose expiry (PX lockTtlMs) has passed.
ExpireLock(k) ==
  /\ redis[LockKeyOf(k)].ttl > 0
  /\ redis' = [redis EXCEPT ![LockKeyOf(k)] = Absent]
  /\ UNCHANGED <<pc, key, lockValue, doubleCheck, reservationId, ret, tokens, failures,
                 storeFailed, confirmCount, confirmed, directSets, unconfirmed, quiet, rolledValue>>
  /\ UNCHANGED controller

\* Redis drops a completion record whose expiry (SETEX ttlSeconds, 24 h) has
\* passed.  The record is at least ttlSeconds old then: a call that runs on the
\* key at that moment began long after the record was written, so no worker
\* stands inside an operation on the key that began before the write, and no
\* lock record of the key (at most lockTtlMs old) is in the store.
ExpireCompletion(k) ==
  /\ redis[IdempotencyKeyOf(k)].ttl > 0
  /\ redis[LockKeyOf(k)] = Absent
  /\ \A p \in Procs : key[p] = k => pc[p] \in {"idle", "crashed"}
  /\ redis' = [redis EXCEPT ![IdempotencyKeyOf(k)] = Absent]
  /\ UNCHANGED <<pc, key, lockValue, doubleCheck, reservationId, ret, tokens, failures,
                 storeFailed, confirmCount, confirmed, directSets, unconfirmed, quiet, rolledValue>>
  /\ UNCHANGED controller

\* A worker that received LockAcquired dies: it never calls confirm or rollback.
Abandon(p) ==
  /\ pc[p] = "holding"
  /\ pc' = [pc EXCEPT ![p] = "crashed"]
  /\ UNCHANGED <<redis, key, lockValue, doubleCheck, reservationId, ret, tokens, failures,
                 storeFailed, confirmCount, confirmed, directSets, unconfirmed, quiet, rolledValue>>
  /\ UNCHANGED controller

Next ==
  \/ \E p \in Procs, k \in Keys : CheckAndLockGet(p, k)
  \/ \E p \in Procs : CheckAndLockSetNx(p)
  \/ \E p \in Procs : CheckAndLockSleep(p)
  \/ \E p \in Procs : CheckAndLockCheckAgain(p)
  \/ \E p \in Procs : CheckAndLockDoubleCheck(p)
  \/ \E p \in Procs : CheckAndLockRelease(p)
  \/ \E p \in Procs, r \in ReservationIds : ConfirmSetex(p, r)
  \/ \E p \in Procs : ConfirmDel(p)
  \/ \E p \in Procs : RollbackDel(p)
  \/ \E k \in Keys : ExpireLock(k)
  \/ \E p \in Procs : Abandon(p)

Spec == Init /\ [][Next]_vars

TypeOK ==
  /\ tokens \in 0 .. MaxTokens
  /\ failures \in 0 .. MaxFailures
  /\ \A p \in Procs : pc[p] \in {"idle", "setnx", "sleep", "checkAgain", "doubleCheck",
                                 "release", "holding", "confirmDel", "crashed"}

\* ---------------------------------------------------------------- queries
CompletionOf(k) == RedisGet(redis, IdempotencyKeyOf(k))
LockOf(k) == RedisGet(redis, LockKeyOf(k))

\* The worker's last call was checkAndLock(k) and it returned (did not throw).
ReturnedFrom(p, k) ==
  /\ pc[p] \in {"idle", "holding", "crashed"}
  /\ key[p] = k
  /\ ret[p].op = "checkAndLock"
  /\ ret[p].status = "ok"

\* =========================================================================
\* The race of C1: every worker calls checkAndLock once, on a store with no
\* completion record and no lock; no lock TTL lapses, nobody confirms or
\* rolls back.
\* =========================================================================
RaceCheckAndLock(p, k) ==
  /\ ret[p] = NoRet
  /\ CheckAndLockGet(p, k)

NextRace ==
  \/ \E p \in Procs, k \in Keys : RaceCheckAndLock(p, k)
  \/ \E p \in Procs : CheckAndLockSetNx(p)
  \/ \E p \in Procs : CheckAndLockSleep(p)
  \/ \E p \in Procs : CheckAndLockCheckAgain(p)
  \/ \E p \in Procs : CheckAndLockDoubleCheck(p)

SpecRace == Init /\ [][NextRace]_vars

RaceWinners(k) == {p \in Procs : ReturnedFrom(p, k) /\ ret[p] = LockAcquired}

\* C1: of the concurrent checkAndLock(K) calls on a key with no completion
\* record and no lock, never two return LockAcquired; once all of them have
\* returned, exactly one returned LockAcquired and each other one returned
\* Duplicate or Contended.
C1_ExactlyOneLockAcquired ==
  \A k \in Keys :
    /\ Cardinality(RaceWinners(k)) <= 1
    /\ (\A p \in Procs : ReturnedFrom(p, k)) =>
         /\ Cardinality(RaceWinners(k)) = 1
         /\ \A p \in Procs \ RaceWinners(k) :
              ret[p] = Contended \/ (ret[p].isDuplicate /\ ~ret[p].lockAcquired)

\* Both workers raced on the same key and both calls have returned.
C1_Witness ==
  \E k \in Keys :
    /\ \A p \in Procs : ReturnedFrom(p, k)
    /\ \E p \in Procs : ret[p] = Contended
    /\ \E p \in Procs : ret[p] = LockAcquired /\ LockOf(k) = lockValue[p]

\* =========================================================================
\* Timely holders (the caller constraint of C2): a worker that acquired the
\* lock confirms or rolls back before its lock record expires, so a lock
\* lapses only once its holder has left the locked section (it called
\* confirm or rollback, or its checkAndLock threw).
\* =========================================================================
HeldBy(p, k) ==
  /\ pc[p] \in {"doubleCheck", "holding"}
  /\ key[p] = k
  /\ LockOf(k) = lockValue[p]

ExpireLockTimely(k) ==
  /\ \A p \in Procs : ~HeldBy(p, k)
  /\ ExpireLock(k)

NextTimely ==
  \/ \E p \in Procs, k \in Keys : CheckAndLockGet(p, k)
  \/ \E p \in Procs : CheckAndLockSetNx(p)
  \/ \E p \in Procs : CheckAndLockSleep(p)
  \/ \E p \in Procs : CheckAndLockCheckAgain(p)
  \/ \E p \in Procs : CheckAndLockDoubleCheck(p)
  \/ \E p \in Procs : CheckAndLockRelease(p)
  \/ \E p \in Procs, r \in ReservationIds : ConfirmSetex(p, r)
  \/ \E p \in Procs : ConfirmDel(p)
  \/ \E p \in Procs : RollbackDel(p)
  \/ \E k \in Keys : ExpireLockTimely(k)

SpecTimely == Init /\ [][NextTimely]_vars

\* C2: when every holder confirms or rolls back before its lock record
\* expires, at most one confirm writes the completion record of a key, over
\* any number of racing or repeated checkAndLock calls.
C2_AtMostOneConfirm == \A k \in Keys : confirmCount[k] <= 1

\* A key was confirmed once, its lock was taken a second time by a racing
\* or retrying worker, and that worker was told Duplicate.
C2_Witness ==
  \E k \in Keys, p \in Procs :
    /\ confirmCount[k] = 1
    /\ tokens >= 2
    /\ ReturnedFrom(p, k)
    /\ ret[p].isDuplicate
    /\ ret[p].existingReservationId = CompletionOf(k)

\* =========================================================================
\* Claims on the unrestricted protocol (Spec): lock records may lapse at any
\* moment, also under a worker that still believes it holds the lock.
\* =========================================================================

\* This step is the first store round-trip of a checkAndLock(k) of worker p,
\* and the call returns in it (the fast path).
FastPathReturn(p, k) ==
  /\ pc[p] = "idle"
  /\ pc'[p] = "idle"
  /\ key'[p] = k
  /\ ret'[p].op = "checkAndLock"
  /\ ret'[p].status = "ok"
  /\ <<key[p], ret[p]>> # <<key'[p], ret'[p]>>

\* C3: once a confirm(K, R) has completed, a checkAndLock(K) that starts
\* afterwards returns Duplicate(R).
C3_DuplicateAfterConfirm ==
  [][\A p \in Procs, k \in Keys :
       FastPathReturn(p, k) => \A r \in confirmed[k] : ret'[p] = Duplicate(r)]_vars

\* C4: a completion record, once written, is never replaced by a different
\* reservation id.
C4_WriteOnceCompletion ==
  [][\A k \in Keys :
       Truthy(CompletionOf(k)) => CompletionOf(k)' = CompletionOf(k)]_vars

\* C5: a lock record changes or disappears only by TTL expiry (no worker
\* moves) or by a step of the worker whose checkAndLock wrote its value.
C5_OnlyOwnerDeletes ==
  [][\A k \in Keys :
       (LockOf(k) # Nil /\ LockOf(k)' # LockOf(k)) =>
          \/ pc' = pc
          \/ \E p \in Procs : pc'[p] # pc[p] /\ key[p] = k /\ lockValue[p] = LockOf(k)]_vars

\* This step is a rollbackLock of worker p that returns.
RollbackReturn(p) ==
  /\ pc[p] = "holding"
  /\ ret'[p] = Returned("rollbackLock")

\* C6: rollback deletes the lock record only when it holds the caller's own
\* value, leaves a lock record of another worker intact, and never writes a
\* completion record.
C6_RollbackTokenGuarded ==
  [][\A p \in Procs :
       RollbackReturn(p) =>
          /\ CompletionOf(key[p])' = CompletionOf(key[p])
          /\ LockOf(key[p]) = lockValue[p] => LockOf(key[p])' = Nil
          /\ LockOf(key[p]) # lockValue[p] => LockOf(key[p])' = LockOf(key[p])]_vars

\* This step is a confirmReservation of worker p whose completion write fails.
ConfirmWriteFails(p) ==
  /\ pc[p] = "holding"
  /\ ret'[p] = Thrown("confirmReservation")

\* C7: when confirm's completion write fails, the call throws, leaves the
\* lock record and the completion record as they were, and the lock record it
\* left in place is afterwards removed by TTL expiry only.
C7_FailedConfirmKeepsLock ==
  [][/\ \A p \in Procs :
          ConfirmWriteFails(p) =>
             /\ pc'[p] = "idle"
             /\ redis' = redis
     /\ \A k \in Keys :
          (unconfirmed[k] # Nil /\ LockOf(k) = unconfirmed[k] /\ LockOf(k)' # LockOf(k)) =>
             pc' = pc]_vars

\* The rollback of key k completed, the checkAndLock of worker q followed it
\* with no other worker touching k, and that call has returned.
FollowsRollback(q, k) ==
  /\ quiet[k] = q
  /\ ReturnedFrom(q, k)

\* C8 as stated: the checkAndLock that immediately follows a rollback returns
\* LockAcquired with a newly generated lock value.
C8_LockAcquiredAfterRollback ==
  \A q \in Procs, k \in Keys :
    FollowsRollback(q, k) =>
      /\ ret[q] = LockAcquired
      /\ lockValue[q] \notin {Nil, rolledValue[k]}

\* C8 as amended: the checkAndLock that immediately follows a rollback is
\* never Contended; it returns LockAcquired with a newly generated lock value
\* when the key has no completion record, and Duplicate(R) when a completion
\* record K -> R exists.
C8_AvailableAfterRollback ==
  \A q \in Procs, k \in Keys :
    FollowsRollback(q, k) =>
      /\ ret[q] # Contended
      /\ ret[q] = LockAcquired =>
           /\ lockValue[q] \notin {Nil, rolledValue[k]}
           /\ ~Truthy(CompletionOf(k))
      /\ ret[q] # LockAcquired =>
           /\ Truthy(CompletionOf(k))
           /\ ret[q] = Duplicate(CompletionOf(k))

\* A worker rolled back and the next checkAndLock of the key took the lock
\* again, under a new value, while the lock TTL of the first has not lapsed.
C8_Witness ==
  \E q \in Procs, k \in Keys :
    /\ FollowsRollback(q, k)
    /\ ret[q] = LockAcquired
    /\ rolledValue[k] # Nil
    /\ LockOf(k) = lockValue[q]
    /\ lockValue[q] # rolledValue[k]

\* C10: a call in which a store operation failed ends with the failure thrown
\* to the caller: it returns no LockAcquired, Duplicate or Contended.
C10_FailuresPropagate ==
  \A p \in Procs :
    storeFailed[p] =>
      /\ pc[p] = "idle"
      /\ ret[p].status = "error"
      /\ ret[p].op \in {"checkAndLock", "confirmReservation", "rollbackLock"}
      /\ ret[p] \notin {LockAcquired, Contended}
      /\ ~ret[p].isDuplicate

\* A checkAndLock threw after it had taken the lock: the re-read failed.
C10_Witness ==
  \E p \in Procs :
    /\ storeFailed[p]
    /\ ret[p] = Thrown("checkAndLock")
    /\ LockOf(key[p]) # Nil
    /\ \A q \in Procs : lockValue[q] # LockOf(key[p])

\* =========================================================================
\* The simple methods beside the check-lock-check flow: any client may call
\* setIdempotencyKey at any moment.
\* =========================================================================
NextDirect ==
  \/ Next
  \/ \E k \in Keys, r \in ReservationIds : SetIdempotencyKey(k, r)

SpecDirect == Init /\ [][NextDirect]_vars

\* =========================================================================
\* Crash recovery: Redis drops a key with an expiry once the expiry has
\* passed, so the expiry of a lock record with a TTL is not postponed forever.
\* =========================================================================
SpecLive == Spec /\ \A k \in Keys : WF_vars(ExpireLock(k))

\* C9: when a worker that received LockAcquired dies without confirm or
\* rollback, its lock record eventually disappears from the store.
CrashedHolder(k) ==
  \E p \in Procs : pc[p] = "crashed" /\ key[p] = k /\ LockOf(k) = lockValue[p]

C9_CrashedLockExpires == \A k \in Keys : CrashedHolder(k) ~> (LockOf(k) = Nil)

\* The holder of the key died, and afterwards another worker's checkAndLock
\* of the same key returned LockAcquired and owns the lock record.
C9_Witness ==
  \E p \in Procs, q \in Procs :
    /\ pc[p] = "crashed"
    /\ q # p
    /\ ReturnedFrom(q, key[p])
    /\ ret[q] = LockAcquired
    /\ LockOf(key[p]) = lockValue[q]

\* =========================================================================
\* Frame and path properties of the three operations (Spec).
\* =========================================================================

\* This step is the completion write of a confirmReservation(k, ..) of worker p.
ConfirmWrites(p, k) ==
  /\ pc[p] = "holding"
  /\ pc'[p] = "confirmDel"
  /\ key[p] = k

\* C11: a completion record is created or changed only by the completion
\* write of confirm; no step of checkAndLock (fast path, contended,
\* double-check duplicate, lock acquired), of rollback, or of the store's
\* lock expiry creates or changes one.
C11_OnlyConfirmCreates ==
  [][\A k \in Keys :
       CompletionOf(k)' # CompletionOf(k) =>
          \E p \in Procs : ConfirmWrites(p, k) /\ CompletionOf(k)' = reservationId'[p]]_vars

\* A key carries the completion record written by its one confirm, while a
\* checkAndLock of it has returned Duplicate, a rollback has completed and a
\* lock value beyond the confirmer's has been generated.
C11_Witness ==
  \E k \in Keys, p \in Procs, q \in Procs :
    /\ confirmCount[k] = 1
    /\ CompletionOf(k) \in confirmed[k]
    /\ ReturnedFrom(p, k)
    /\ ret[p] = Duplicate(CompletionOf(k))
    /\ ret[q] = Returned("rollbackLock")
    /\ tokens >= 2

\* This step is a step of worker p (of the operation it stands in).
Moves(p) == <<pc[p], key[p], ret[p]>>' # <<pc[p], key[p], ret[p]>>

\* This step is the first store round-trip of a checkAndLock(k) of worker p,
\* the read succeeds and finds a completion record.
FastPathRead(p, k) ==
  /\ pc[p] = "idle"
  /\ Moves(p)
  /\ key'[p] = k
  /\ ~storeFailed'[p]
  /\ CompletionOf(k) # Nil

\* C12: a checkAndLock(K) whose first read finds a completion record returns
\* Duplicate of the value read in that very step; it generates no lock value
\* and attempts no conditional set, and the lock record of K (present or
\* absent, whoever holds it) and the rest of the store stay as they were.
C12_FastPathNoLock ==
  [][\A p \in Procs, k \in Keys :
       FastPathRead(p, k) =>
          /\ pc'[p] = "idle"
          /\ ret'[p] = Duplicate(CompletionOf(k))
          /\ tokens' = tokens
          /\ lockValue'[p] = Nil
          /\ LockOf(k)' = LockOf(k)
          /\ redis' = redis]_vars

\* A checkAndLock returned Duplicate on the fast path while the confirming
\* worker still holds the lock record of the key: the one lock value
\* generated so far is the confirmer's.
C12_Witness ==
  \E k \in Keys, p \in Procs, q \in Procs :
    /\ q # p
    /\ tokens = 1
    /\ pc[q] = "confirmDel"
    /\ key[q] = k
    /\ LockOf(k) = lockValue[q]
    /\ LockOf(k) # Nil
    /\ ReturnedFrom(p, k)
    /\ ret[p] = Duplicate(CompletionOf(k))

\* This step is the conditional set of a checkAndLock of worker p, and the
\* set is refused: the key has a lock record.
SetRefused(p) ==
  /\ pc[p] = "setnx"
  /\ Moves(p)
  /\ ~storeFailed'[p]
  /\ LockOf(key[p]) # Nil

\* This step is the re-read of the contended path of worker p, and it succeeds.
ContendedReRead(p) ==
  /\ pc[p] = "checkAgain"
  /\ Moves(p)
  /\ ~storeFailed'[p]

\* C13: a checkAndLock(K) whose conditional set is refused waits once,
\* re-reads the completion record once and returns Duplicate of the value read
\* when there is one and Contended otherwise; it does not go back to the
\* conditional set, generates no further lock value, never returns
\* LockAcquired, and leaves the store, hence the holder's lock record, as it was.
C13_ContendedPath ==
  [][\A p \in Procs :
       /\ SetRefused(p) =>
            /\ pc'[p] = "sleep"
            /\ ret'[p] = ret[p]
            /\ redis' = redis
       /\ (pc[p] = "sleep" /\ Moves(p)) =>
            /\ pc'[p] = "checkAgain"
            /\ ret'[p] = ret[p]
            /\ tokens' = tokens
            /\ redis' = redis
       /\ ContendedReRead(p) =>
            /\ pc'[p] = "idle"
            /\ ret'[p] = IF CompletionOf(key[p]) # Nil
                           THEN Duplicate(CompletionOf(key[p]))
                           ELSE Contended
            /\ ret'[p] # LockAcquired
            /\ tokens' = tokens
            /\ redis' = redis]_vars

\* A checkAndLock returned Contended while another worker, to which
\* LockAcquired was returned, holds the lock record of the key.
C13_Witness ==
  \E k \in Keys, p \in Procs, q \in Procs :
    /\ q # p
    /\ ReturnedFrom(p, k)
    /\ ret[p] = Contended
    /\ pc[q] = "holding"
    /\ key[q] = k
    /\ LockOf(k) = lockValue[q]
    /\ LockOf(k) # Nil

\* This step is the re-read of worker p with the lock taken; the read
\* succeeds and finds a completion record.
DoubleCheckFinds(p) ==
  /\ pc[p] = "doubleCheck"
  /\ Moves(p)
  /\ ~storeFailed'[p]
  /\ CompletionOf(key[p]) # Nil

\* This step is the release of the duplicate path of worker p, and it succeeds.
DoubleCheckRelease(p) ==
  /\ pc[p] = "release"
  /\ Moves(p)
  /\ ~storeFailed'[p]

\* This step ends a checkAndLock of worker p that returns without LockAcquired.
ReturnsWithoutLock(p) ==
  /\ pc[p] \in {"idle", "checkAgain", "release"}
  /\ Moves(p)
  /\ pc'[p] = "idle"
  /\ ret'[p].status = "ok"

\* The lock values generated so far.
Generated == {NewLockValue(n) : n \in 1 .. tokens}

\* C14: when the re-read under the lock finds a completion record, the call
\* keeps the value read, then deletes the lock record if and only if it still
\* holds the call's own lock value (nothing else in the store changes) and
\* returns Duplicate of the value read; when a checkAndLock returns without
\* LockAcquired, the lock record of its key does not hold the lock value the
\* call generated, and a lock value that has left the store never comes back.
C14_DoubleCheckReleases ==
  [][/\ \A p \in Procs :
          /\ DoubleCheckFinds(p) =>
               /\ pc'[p] = "release"
               /\ doubleCheck'[p] = CompletionOf(key[p])
               /\ redis' = redis
          /\ DoubleCheckRelease(p) =>
               /\ pc'[p] = "idle"
               /\ ret'[p] = Duplicate(doubleCheck[p])
               /\ CompletionOf(key[p])' = CompletionOf(key[p])
               /\ LockOf(key[p])' = IF LockOf(key[p]) = lockValue[p] THEN Nil ELSE LockOf(key[p])
               /\ \A k \in Keys \ {key[p]} : LockOf(k)' = LockOf(k) /\ CompletionOf(k)' = CompletionOf(k)
          /\ ReturnsWithoutLock(p) =>
               /\ ret'[p] # LockAcquired
               /\ lockValue[p] = Nil \/ \A k \in Keys : key'[p] = k => LockOf(k)' # lockValue[p]
     /\ \A k \in Keys, v \in Generated :
          LockOf(k) # v => LockOf(k)' # v]_vars

\* A checkAndLock took the lock after the confirmed holder had let it go,
\* found the completion record in its re-read, released its own lock record
\* and returned Duplicate.
C14_Witness ==
  \E k \in Keys, p \in Procs :
    /\ ReturnedFrom(p, k)
    /\ pc[p] = "idle"
    /\ doubleCheck[p] # Nil
    /\ ret[p] = Duplicate(doubleCheck[p])
    /\ doubleCheck[p] = CompletionOf(k)
    /\ LockOf(k) = Nil
    /\ tokens = 2

\* =========================================================================
\* Runs in which no lock TTL lapses (the premise of C15): every operation
\* finishes within the lock TTL.
\* =========================================================================
NextNoExpiry ==
  \/ \E p \in Procs, k \in Keys : CheckAndLockGet(p, k)
  \/ \E p \in Procs : CheckAndLockSetNx(p)
  \/ \E p \in Procs : CheckAndLockSleep(p)
  \/ \E p \in Procs : CheckAndLockCheckAgain(p)
  \/ \E p \in Procs : CheckAndLockDoubleCheck(p)
  \/ \E p \in Procs : CheckAndLockRelease(p)
  \/ \E p \in Procs, r \in ReservationIds : ConfirmSetex(p, r)
  \/ \E p \in Procs : ConfirmDel(p)
  \/ \E p \in Procs : RollbackDel(p)
  \/ \E p \in Procs : Abandon(p)

SpecNoExpiry == Init /\ [][NextNoExpiry]_vars

\* A confirmReservation of key k has begun its work on the store: its
\* completion write succeeded or failed.
ConfirmBegan(k) == confirmCount[k] > 0 \/ unconfirmed[k] # Nil

\* C15: when no lock TTL lapses, confirm has written the completion record
\* by the time it deletes the lock record: a worker between the two steps
\* finds both records in place; from the lock holder's call of confirm on, the
\* key is never without both a lock record and a completion record; and no
\* worker is told LockAcquired for the key while a confirm of it runs or
\* after one began.
C15_ConfirmOrdering ==
  \A k \in Keys :
    /\ \A p \in Procs :
         (pc[p] = "confirmDel" /\ key[p] = k) =>
            /\ CompletionOf(k) = reservationId[p]
            /\ LockOf(k) = lockValue[p]
            /\ \A q \in Procs \ {p} : ~(pc[q] \in {"holding", "confirmDel"} /\ key[q] = k)
    /\ \A p \in Procs :
         (pc[p] \in {"holding", "confirmDel"} /\ key[p] = k) =>
            (LockOf(k) # Nil \/ CompletionOf(k) # Nil)
    /\ ConfirmBegan(k) =>
         /\ LockOf(k) # Nil \/ CompletionOf(k) # Nil
         /\ \A q \in Procs : ~(ReturnedFrom(q, k) /\ ret[q] = LockAcquired)

\* A confirm stands between its two steps, both records in place, and a
\* checkAndLock of the other worker that ran across the completion write (its
\* conditional set was refused, its re-read found the record) returned Duplicate.
C15_Witness ==
  \E k \in Keys, p \in Procs, q \in Procs :
    /\ q # p
    /\ pc[p] = "confirmDel"
    /\ key[p] = k
    /\ LockOf(k) = lockValue[p]
    /\ CompletionOf(k) = reservationId[p]
    /\ ReturnedFrom(q, k)
    /\ ret[q] = Duplicate(reservationId[p])
    /\ tokens = 2

\* =========================================================================
\* Runs longer than the completion TTL: completion records lapse too.
\* =========================================================================
NextExpiry ==
  \/ Next
  \/ \E k \in Keys : ExpireCompletion(k)

SpecExpiry == Init /\ [][NextExpiry]_vars

\* The state of a key in the store; a completion record supersedes the lock.
KeyState(k) ==
  IF CompletionOf(k) # Nil THEN "Confirmed"
  ELSE IF LockOf(k) # Nil THEN "Locked"
  ELSE "Unlocked"

\* This step is the conditional set of a checkAndLock(k) of worker p.
SetNxStep(p, k) ==
  /\ pc[p] = "setnx"
  /\ key[p] = k
  /\ Moves(p)

\* This step is a rollbackLock(k) of worker p that returns.
RollbackStep(p, k) ==
  /\ key[p] = k
  /\ RollbackReturn(p)

\* No worker takes this step: it is a step of the store (a TTL expiry).
StoreStep == <<pc, key, ret, lockValue>>' = <<pc, key, ret, lockValue>>

\* The moves of the claimed state machine of key k.
ClaimedMove(k) ==
  LET a == KeyState(k)
      b == KeyState(k)'
  IN \/ /\ a = "Unlocked" /\ b = "Locked"
        /\ \E p \in Procs : SetNxStep(p, k) /\ LockOf(k)' = lockValue'[p]
     \/ /\ a = "Locked" /\ b = "Confirmed"
        /\ \E p \in Procs : ConfirmWrites(p, k)
     \/ /\ a = "Locked" /\ b = "Unlocked"
        /\ StoreStep \/ \E p \in Procs : RollbackStep(p, k)
     \/ /\ a = "Confirmed" /\ b = "Unlocked"
        /\ StoreStep

\* The state of key k moves, or its lock passes to another lock value.
KeyMoves(k) ==
  \/ KeyState(k)' # KeyState(k)
  \/ KeyState(k) = "Locked" /\ LockOf(k)' # LockOf(k)

\* Confirmed is terminal: only the store (TTL expiry) removes a completion
\* record, and no checkAndLock returns LockAcquired for a Confirmed key.
ConfirmedTerminal(k) ==
  /\ (CompletionOf(k) # Nil /\ CompletionOf(k)' = Nil) => StoreStep
  /\ \A p \in Procs :
       (key[p] = k /\ pc[p] = "doubleCheck" /\ ret'[p] = LockAcquired) =>
          (KeyState(k) # "Confirmed" /\ KeyState(k)' # "Confirmed")

LateConfirm(k) ==
  /\ KeyState(k) = "Unlocked"
  /\ KeyState(k)' = "Confirmed"
  /\ \E p \in Procs : ConfirmWrites(p, k) /\ lockValue[p] # Nil

IsLockAcquired(r) == r.lockAcquired /\ ~r.isDuplicate /\ r.existingReservationId = Undefined
IsDuplicate(r) == r.isDuplicate /\ ~r.lockAcquired /\ r.existingReservationId # Undefined
IsContended(r) == ~r.isDuplicate /\ ~r.lockAcquired /\ r.existingReservationId = Undefined

\* The completion value read by the step in which worker p's checkAndLock
\* returns: the first read, the contended re-read, or the re-read under the lock.
ValueRead(p) ==
  IF pc[p] = "release" THEN doubleCheck[p]
  ELSE IF pc[p] = "checkAgain" THEN CompletionOf(key[p])
  ELSE IF key'[p] \in Keys THEN redis[IdempotencyKeyOf(key'[p])].value
  ELSE Nil

\* C17: what a checkAndLock returns is exactly one of LockAcquired (not a
\* duplicate, no reservation id), Duplicate (no lock acquired, the reservation
\* id is the completion value read by that call) and Contended.
C17_ResultWellFormed ==
  [][\A p \in Procs :
       (ret'[p].op = "checkAndLock" /\ ret'[p].status = "ok") =>
          /\ ret'[p].lockAcquired =>
               (~ret'[p].isDuplicate /\ ret'[p].existingReservationId = Undefined)
          /\ ret'[p].isDuplicate =>
               (~ret'[p].lockAcquired /\ ret'[p].existingReservationId \in ReservationIds)
          /\ (ret'[p].isDuplicate /\ Moves(p)) =>
               ret'[p].existingReservationId = ValueRead(p)
          /\ Cardinality({i \in 1 .. 3 :
                            \/ i = 1 /\ IsLockAcquired(ret'[p])
                            \/ i = 2 /\ IsDuplicate(ret'[p])
                            \/ i = 3 /\ IsContended(ret'[p])}) = 1]_vars

\* One worker was returned Duplicate of the completion record of its key
\* while the other was returned LockAcquired on the other key.
C17_Witness ==
  \E p \in Procs, q \in Procs, k \in Keys :
    /\ q # p
    /\ ReturnedFrom(p, k)
    /\ IsDuplicate(ret[p])
    /\ ret[p].existingReservationId = CompletionOf(k)
    /\ ret[q].op = "checkAndLock"
    /\ ret[q].status = "ok"
    /\ IsLockAcquired(ret[q])
    /\ key[q] # k

\* =========================================================================
\* Key isolation (Spec).
\* =========================================================================

\* What a successful step of worker p on key k does, told from the two
\* records of k and the locals of the call alone.
OwnKeyOutcome(p, k) ==
  LET lock == LockOf(k)
      done == CompletionOf(k)
      sameLock == LockOf(k)' = lock
      sameDone == CompletionOf(k)' = done
  IN CASE pc[p] = "idle" ->
            /\ sameLock /\ sameDone
            /\ IF done # Nil
                 THEN pc'[p] = "idle" /\ ret'[p] = Duplicate(done)
                 ELSE pc'[p] = "setnx"
       [] pc[p] = "setnx" ->
            /\ sameDone
            /\ IF lock = Nil
                 THEN pc'[p] = "doubleCheck" /\ LockOf(k)' = lockValue'[p]
                 ELSE pc'[p] = "sleep" /\ sameLock
       [] pc[p] = "sleep" ->
            /\ sameLock /\ sameDone
            /\ pc'[p] = "checkAgain"
       [] pc[p] = "checkAgain" ->
            /\ sameLock /\ sameDone
            /\ pc'[p] = "idle"
            /\ ret'[p] = IF done # Nil THEN Duplicate(done) ELSE Contended
       [] pc[p] = "doubleCheck" ->
            /\ sameLock /\ sameDone
            /\ IF done # Nil
                 THEN pc'[p] = "release" /\ doubleCheck'[p] = done
                 ELSE pc'[p] = "holding" /\ ret'[p] = LockAcquired
       [] pc[p] = "release" ->
            /\ sameDone
            /\ LockOf(k)' = IF lock = lockValue[p] THEN Nil ELSE lock
            /\ pc'[p] = "idle"
            /\ ret'[p] = Duplicate(doubleCheck[p])
       [] pc[p] = "holding" ->
            \/ /\ pc'[p] = "confirmDel"
               /\ CompletionOf(k)' = reservationId'[p]
               /\ sameLock
            \/ /\ pc'[p] = "idle"
               /\ ret'[p] = Returned("rollbackLock")
               /\ LockOf(k)' = Nil
               /\ sameDone
            \/ /\ pc'[p] = "crashed"
               /\ sameLock /\ sameDone
       [] pc[p] = "confirmDel" ->
            /\ sameDone
            /\ LockOf(k)' = Nil
            /\ pc'[p] = "idle"
            /\ ret'[p] = Returned("confirmReservation")
       [] OTHER -> FALSE

\* C18: a step of checkAndLock, confirm or rollback on key K1 leaves the lock
\* record and the completion record of every other key K2 as they were, and
\* what the step does and returns is told by the two records of K1 and the
\* call's own locals alone: operations on K2 are not affected by what is
\* interleaved on K1.
C18_KeyIsolation ==
  [][\A p \in Procs, k1 \in Keys :
       (Moves(p) /\ key'[p] = k1) =>
          /\ \A k2 \in Keys \ {k1} :
               /\ LockOf(k2)' = LockOf(k2)
               /\ CompletionOf(k2)' = CompletionOf(k2)
          /\ ~storeFailed'[p] => OwnKeyOutcome(p, k1)]_vars

\* The two keys are in use at once: one worker holds the lock of one key
\* with LockAcquired while the other worker has confirmed the other key.
C18_Witness ==
  \E p \in Procs, q \in Procs, k1 \in Keys, k2 \in Keys :
    /\ k1 # k2
    /\ pc[p] = "holding"
    /\ key[p] = k1
    /\ LockOf(k1) = lockValue[p]
    /\ CompletionOf(k1) = Nil
    /\ key[q] = k2
    /\ ret[q] = Returned("confirmReservation")
    /\ CompletionOf(k2) \in confirmed[k2]
    /\ LockOf(k2) = Nil

\* =========================================================================
\* The create_reservation message handler
\* (src/ms-reservations/src/reservations/reservations.controller.ts).
\* reservationsService.create is awaited: it resolves with the reservation or
\* rejects with an error; the handler's code after the await is one step.
\* =========================================================================

\* The transport delivers message m and the handler runs up to the await.  A
\* message is delivered when it is new, and again when its handler finished
\* without an acknowledgement.
Deliver(m) ==
  /\ \/ handler[m] = "queued"
     \/ handler[m] \in {"returned", "thrown"} /\ acks[m] = 0
  /\ deliveries[m] < MaxDeliveries
  /\ deliveries' = [deliveries EXCEPT ![m] = @ + 1]
  /\ handler' = [handler EXCEPT ![m] = "awaitCreate"]
  /\ outcome' = [outcome EXCEPT ![m] = Nil]
  /\ UNCHANGED acks
  /\ UNCHANGED idempotency

\* try: `const result = await create(data); channel.ack(originalMsg); return result`.
CreateResolves(m, result) ==
  /\ handler[m] = "awaitCreate"
  /\ acks' = [acks EXCEPT ![m] = @ + 1]
  /\ outcome' = [outcome EXCEPT ![m] = result]
  /\ handler' = [handler EXCEPT ![m] = "returned"]
  /\ UNCHANGED deliveries
  /\ UNCHANGED idempotency

\* A catch block that rethrows without the acknowledgement.
CreateRejectsNoAck(m, error) ==
  /\ handler[m] = "awaitCreate"
  /\ outcome' = [outcome EXCEPT ![m] = error]
  /\ handler' = [handler EXCEPT ![m] = "thrown"]
  /\ UNCHANGED <<acks, deliveries>>
  /\ UNCHANGED idempotency

\* catch (error): `channel.ack(originalMsg); throw error`.
CreateRejects(m, error) ==
  /\ handler[m] = "awaitCreate"
  /\ acks' = [acks EXCEPT ![m] = @ + 1]
  /\ outcome' = [outcome EXCEPT ![m] = error]
  /\ handler' = [handler EXCEPT ![m] = "thrown"]
  /\ UNCHANGED deliveries
  /\ UNCHANGED idempotency

NextController ==
  \/ \E m \in Messages : Deliver(m)
  \/ \E m \in Messages, result \in ReservationIds : CreateResolves(m, result)
  \/ \E m \in Messages, error \in CreateErrors : CreateRejects(m, error)

SpecController == Init /\ [][NextController]_vars

\* The handler of message m has finished: it returned or it threw.
Handled(m) == handler[m] \in {"returned", "thrown"}

====
